---- MODULE Spec2Model ----
(***************************************************************************)
(* Model of the data-pipeline dashboard front end:                          *)
(*   - the column classifier and the visualization rule engine of          *)
(*     DataChart.jsx (classifyColumn, classifyColumns,                      *)
(*     selectVisualizations, DataChart's useMemo);                          *)
(*   - the fetch / pagination state of App.jsx with DataTable's buttons.   *)
(*                                                                          *)
(* JavaScript values are modelled as follows.                               *)
(*   cell       a record [t, n, d, s]: t is the typeof tag ("number",       *)
(*              "string", "null", "undefined"), n/d the number, s the      *)
(*              string.  A number is the exact rational n/d in lowest      *)
(*              terms with d > 0; d = 0 encodes NaN (n = 0) and            *)
(*              +-Infinity (n = +-1).  The cells of a row batch are        *)
(*              integers, strings or null (JSON); the engine's arithmetic  *)
(*              is exact where the code's is IEEE double.                  *)
(*   string     a TLA+ string; characters are reached with SubSeq.          *)
(*   row        a JS object: a sequence of entries [k, v] in key order.     *)
(*   batch      a sequence of rows.                                         *)
(*   role map   a JS object: a sequence of entries [k, v], v a role string. *)
(*   descriptor a record [type, data, xAxis, yAxis, description].          *)
(***************************************************************************)
EXTENDS Integers, Sequences, FiniteSets, TLC

VARIABLES
    pc,               \* position of the engine call under study
    ccName,           \* classifyColumn: argument columnName
    ccSample,         \* classifyColumn: argument sampleValues
    ccAll,            \* classifyColumn: argument allValues
    ccResult,         \* classifyColumn: returned role ("" before the call)
    input,            \* the row batch as the caller built it (never assigned)
    data,             \* the row batch array as it is on the heap now
    columns,          \* selectVisualizations: argument columns
    classifications,  \* the role map (caller supplied, or classifyColumns' result)
    visualizations,   \* selectVisualizations' result (NoResult before the call)
    page,             \* App: page state
    totalPages,       \* App: totalPages state
    loading,          \* App: loading state
    error,            \* App: error state
    appData,          \* App: data state
    chart,            \* DataChart: the memoised visualizations for appData
    summary,          \* App: summary state (TRUE once a summary is held)
    inflight,         \* App: the fetchData calls that are suspended at an await
    summaryInflight,  \* App: number of fetchSummary calls awaiting their response
    calls,            \* App: number of fetchData calls made so far
    failures          \* history: TRUE once a fetchData call has reached its catch

engineVars == <<pc, ccName, ccSample, ccAll, ccResult, input, data, columns,
                classifications, visualizations>>
appVars == <<page, totalPages, loading, error, appData, chart, summary, inflight,
             summaryInflight, calls, failures>>
vars == <<engineVars, appVars>>

---------------------------------------------------------------------------
(* JavaScript values *)

Num(k) == [t |-> "number", n |-> k, d |-> 1, s |-> ""]
Str(x) == [t |-> "string", n |-> 0, d |-> 1, s |-> x]
Null == [t |-> "null", n |-> 0, d |-> 1, s |-> ""]
Undefined == [t |-> "undefined", n |-> 0, d |-> 1, s |-> ""]
NaN == [t |-> "number", n |-> 0, d |-> 0, s |-> ""]

IsNaN(v) == v.t = "number" /\ v.d = 0 /\ v.n = 0

\* typeof v === 'number' && !isNaN(v)
IsNumber(v) == v.t = "number" /\ ~IsNaN(v)

\* typeof v === 'number'
TypeofNumber(v) == v.t = "number"

\* typeof v === 'string'
IsString(v) == v.t = "string"

\* v != null (loose): false for null and undefined
NotNullish(v) == v.t \notin {"null", "undefined"}

\* JavaScript truthiness of a cell: null, undefined, 0 and '' are falsy
Truthy(v) ==
    \/ v.t = "number" /\ v.n # 0
    \/ v.t = "string" /\ v.s # ""

Ch(s, i) == SubSeq(s, i, i)

Digits == "0123456789"

RECURSIVE NatToString(_)
NatToString(k) ==
    IF k < 10 THEN Ch(Digits, k + 1)
    ELSE NatToString(k \div 10) \o Ch(Digits, (k % 10) + 1)

\* String(n) for an integer n
NumberToString(k) == IF k < 0 THEN "-" \o NatToString(-k) ELSE NatToString(k)

\* String(v)
String(v) ==
    CASE v.t = "number" -> NumberToString(v.n)
      [] v.t = "string" -> v.s
      [] v.t = "null" -> "null"
      [] OTHER -> "undefined"

Abs(k) == IF k < 0 THEN -k ELSE k

RECURSIVE Gcd(_, _)
Gcd(a, b) == IF b = 0 THEN a ELSE Gcd(b, a % b)

\* the JS number n/d (d = 0: NaN for n = 0, else an infinity)
Ratio(n, d) ==
    IF d = 0
    THEN [t |-> "number", n |-> (IF n > 0 THEN 1 ELSE IF n < 0 THEN -1 ELSE 0),
          d |-> 0, s |-> ""]
    ELSE LET g == Gcd(Abs(n), Abs(d))
             sg == IF d < 0 THEN -1 ELSE 1
         IN  [t |-> "number", n |-> sg * (n \div g), d |-> Abs(d) \div g, s |-> ""]

\* a + b, a - b, a / b on finite numbers
Plus(a, b) == Ratio(a.n * b.d + b.n * a.d, a.d * b.d)
Minus(a, b) == Ratio(a.n * b.d - b.n * a.d, a.d * b.d)
Divide(a, b) == Ratio(a.n * b.d, a.d * b.n)
Times(a, b) == Ratio(a.n * b.n, a.d * b.d)

\* the sign Array.prototype.sort reads from a comparator's result (NaN is 0)
Sign(a) == IF a.n > 0 THEN 1 ELSE IF a.n < 0 THEN -1 ELSE 0

\* Math.floor
Floor(a) == IF a.d = 0 THEN a ELSE Num(a.n \div a.d)

\* Math.min(a, b): NaN if either is NaN
MathMin2(a, b) ==
    IF IsNaN(a) \/ IsNaN(b) THEN NaN
    ELSE IF a.n * b.d <= b.n * a.d THEN a ELSE b

\* a <= b on finite numbers
Leq(a, b) == a.n * b.d <= b.n * a.d

UpperLetters == "ABCDEFGHIJKLMNOPQRSTUVWXYZ"
LowerLetters == "abcdefghijklmnopqrstuvwxyz"

IsDigit(c) == \E i \in 1..10 : Ch(Digits, i) = c
IsUpper(c) == \E i \in 1..26 : Ch(UpperLetters, i) = c
IsLower(c) == \E i \in 1..26 : Ch(LowerLetters, i) = c

LowerChar(c) ==
    IF IsUpper(c)
    THEN Ch(LowerLetters, CHOOSE i \in 1..26 : Ch(UpperLetters, i) = c)
    ELSE c

\* String.prototype.toLowerCase
RECURSIVE toLowerCase(_)
toLowerCase(s) ==
    IF Len(s) = 0 THEN ""
    ELSE LowerChar(Ch(s, 1)) \o toLowerCase(SubSeq(s, 2, Len(s)))

\* String.prototype.includes
includes(s, sub) ==
    \E i \in 1..(Len(s) - Len(sub) + 1) : SubSeq(s, i, i + Len(sub) - 1) = sub

\* row[col]: undefined when the row has no such key
Get(row, col) ==
    IF \E i \in 1..Len(row) : row[i].k = col
    THEN row[CHOOSE i \in 1..Len(row) : row[i].k = col].v
    ELSE Undefined

\* Object.keys(row), for keys that are no array indices
Keys(row) == [i \in 1..Len(row) |-> row[i].k]

\* data.map(row => row[col])
Column(rows, col) == [i \in 1..Len(rows) |-> Get(rows[i], col)]

\* columns.filter(col => classifications[col] === role)
RoleOf(classes, col) ==
    IF \E i \in 1..Len(classes) : classes[i].k = col
    THEN classes[CHOOSE i \in 1..Len(classes) : classes[i].k = col].v
    ELSE "undefined"

Min2(a, b) == IF a < b THEN a ELSE b

---------------------------------------------------------------------------
(* classifyColumn *)

MatchDigits(s, i, n) ==
    /\ i + n - 1 <= Len(s)
    /\ \A j \in i..(i + n - 1) : IsDigit(Ch(s, j))

MatchLit(s, i, lit) ==
    /\ i + Len(lit) - 1 <= Len(s)
    /\ SubSeq(s, i, i + Len(lit) - 1) = lit

\* \d{4}-\d{2}-\d{2} matched at position i
IsoDateAt(s, i) ==
    /\ MatchDigits(s, i, 4)
    /\ MatchLit(s, i + 4, "-")
    /\ MatchDigits(s, i + 5, 2)
    /\ MatchLit(s, i + 7, "-")
    /\ MatchDigits(s, i + 8, 2)

\* \d{1,2}\/\d{1,2}\/\d{4} matched at position i
SlashDateAt(s, i) ==
    \E a \in 1..2, b \in 1..2 :
        /\ MatchDigits(s, i, a)
        /\ MatchLit(s, i + a, "/")
        /\ MatchDigits(s, i + a + 1, b)
        /\ MatchLit(s, i + a + b + 1, "/")
        /\ MatchDigits(s, i + a + b + 2, 4)

\* [A-Z][a-z]{2} \d{1,2}, \d{4} matched at position i
LongDateAt(s, i) ==
    /\ i + 2 <= Len(s)
    /\ IsUpper(Ch(s, i))
    /\ IsLower(Ch(s, i + 1))
    /\ IsLower(Ch(s, i + 2))
    /\ MatchLit(s, i + 3, " ")
    /\ \E a \in 1..2 :
        /\ MatchDigits(s, i + 4, a)
        /\ MatchLit(s, i + 4 + a, ", ")
        /\ MatchDigits(s, i + 6 + a, 4)

\* the unanchored date regular expression, .test(s)
LooksLikeDate(s) ==
    \E i \in 1..Len(s) : IsoDateAt(s, i) \/ SlashDateAt(s, i) \/ LongDateAt(s, i)

temporalKeywords ==
    <<"date", "time", "year", "month", "day", "joined", "created", "updated">>

HasTemporalKeyword(nameLower) ==
    \E i \in 1..Len(temporalKeywords) : includes(nameLower, temporalKeywords[i])

\* new Set(values).size
SetSize(values) == Cardinality({values[i] : i \in 1..Len(values)})

\* line 16-21 without the uniqueness test of line 18
IdLikeAnyValues(nameLower, allValues) ==
    /\ includes(nameLower, "id")
    /\ nameLower # "id"

\* the identifier test of a name that contains 'id' without being 'id'
IdLikeUnique(nameLower, allValues) ==
    /\ includes(nameLower, "id")
    /\ nameLower # "id"
    /\ SetSize(allValues) = Len(allValues)

\* line 22 with the test for 'name' left out
IsIdOnly(nameLower) == nameLower = "id"

\* nameLower === 'id' || nameLower === 'name'
IsIdentifierName(nameLower) == nameLower = "id" \/ nameLower = "name"

\* cardinality < Math.max(50, totalRows * 0.1)
LowCardinality(cardinality, totalRows) ==
    cardinality < 50 \/ cardinality * 10 < totalRows

\* line 60 naming the other role 'text', which is none of the four
FallbackText(numericCount, sampleLength) ==
    IF 2 * numericCount > sampleLength THEN "numeric" ELSE "text"

\* numericCount > sampleValues.length / 2 ? 'numeric' : 'categorical'
FallbackRole(numericCount, sampleLength) ==
    IF 2 * numericCount > sampleLength THEN "numeric" ELSE "categorical"

classifyColumn(columnName, sampleValues, allValues) ==
    LET nameLower == toLowerCase(columnName)
        numericCount == Len(SelectSeq(sampleValues, IsNumber))
        cardinality ==
            Cardinality({String(sampleValues[i]) : i \in 1..Len(sampleValues)})
        totalRows == Len(allValues)
    IN  IF IdLikeUnique(nameLower, allValues) THEN "identifier"
        ELSE IF IsIdentifierName(nameLower) THEN "identifier"
        ELSE IF HasTemporalKeyword(nameLower) THEN "temporal"
        ELSE IF Len(sampleValues) > 0 /\ LooksLikeDate(String(sampleValues[1]))
            THEN "temporal"
        ELSE IF numericCount = Len(sampleValues) /\ Len(sampleValues) > 0
            THEN "numeric"
        ELSE IF (\E i \in 1..Len(sampleValues) : IsString(sampleValues[i]))
                /\ LowCardinality(cardinality, totalRows)
            THEN "categorical"
        ELSE FallbackRole(numericCount, Len(sampleValues))

SampleSize == 100

\* data.slice(0, Math.min(100, data.length))
Sample(rows) == SubSeq(rows, 1, Min2(SampleSize, Len(rows)))

classifyColumns(rows) ==
    IF Len(rows) = 0 THEN <<>>
    ELSE LET cols == Keys(rows[1])
         IN  [i \in 1..Len(cols) |->
                [k |-> cols[i],
                 v |-> classifyColumn(cols[i], Column(Sample(rows), cols[i]),
                                      Column(rows, cols[i]))]]

---------------------------------------------------------------------------
(* Arrays and objects *)

\* arr.slice(0, n)
SliceTo(arr, n) == SubSeq(arr, 1, Min2(n, Len(arr)))

RECURSIVE InsertIdx(_, _, _)
InsertIdx(sorted, x, after) ==
    IF Len(sorted) = 0 THEN <<x>>
    ELSE IF after[sorted[Len(sorted)]][x]
         THEN Append(InsertIdx(SubSeq(sorted, 1, Len(sorted) - 1), x, after),
                     sorted[Len(sorted)])
         ELSE Append(sorted, x)

RECURSIVE SortIdx(_, _, _, _)
SortIdx(n, i, acc, after) ==
    IF i > n THEN acc ELSE SortIdx(n, i + 1, InsertIdx(acc, i, after), after)

\* Array.prototype.sort(cmp) as a stable insertion sort; after[i][j] says
\* that cmp(arr[i], arr[j]) > 0.  Every stable sort returns the same array
\* for a consistent comparator.
sort(arr, after) ==
    LET perm == SortIdx(Len(arr), 1, <<>>, after)
    IN  [k \in 1..Len(arr) |-> arr[perm[k]]]

\* obj[k] = v on an object: an own key keeps its place, a new key goes last
ObjSet(obj, key, val) ==
    IF \E i \in 1..Len(obj) : obj[i].k = key
    THEN [i \in 1..Len(obj) |-> IF obj[i].k = key THEN [k |-> key, v |-> val] ELSE obj[i]]
    ELSE Append(obj, [k |-> key, v |-> val])

RECURSIVE StringToNat(_)
StringToNat(s) ==
    IF Len(s) = 0 THEN 0
    ELSE 10 * StringToNat(SubSeq(s, 1, Len(s) - 1))
         + (CHOOSE i \in 0..9 : Ch(Digits, i + 1) = Ch(s, Len(s)))

\* a property key that is a canonical array index ("0", "7", "42"); every
\* canonical numeral of up to nine digits is one (the limit is 2^32 - 2)
IsArrayIndex(s) ==
    /\ Len(s) > 0
    /\ Len(s) <= 9
    /\ \A i \in 1..Len(s) : IsDigit(Ch(s, i))
    /\ (Len(s) = 1 \/ Ch(s, 1) # "0")

\* the k-th smallest member of a finite set of integers
Nth(S, k) == CHOOSE x \in S : Cardinality({y \in S : y < x}) = k - 1

\* the own keys of an object whose keys were first assigned in the order of
\* keySeq: array indices ascending, then the other keys in insertion order
OwnKeyOrder(keySeq) ==
    LET first == {i \in 1..Len(keySeq) : \A j \in 1..(i - 1) : keySeq[j] # keySeq[i]}
        idx == {i \in first : IsArrayIndex(keySeq[i])}
        rest == first \ idx
        idxVals == {StringToNat(keySeq[i]) : i \in idx}
    IN  [k \in 1..Cardinality(first) |->
            IF k <= Cardinality(idx)
            THEN NumberToString(Nth(idxVals, k))
            ELSE keySeq[Nth(rest, k - Cardinality(idx))]]

RECURSIVE SumCells(_)
SumCells(cells) ==
    IF Len(cells) = 0 THEN Num(0)
    ELSE Plus(SumCells(SubSeq(cells, 1, Len(cells) - 1)), cells[Len(cells)])

---------------------------------------------------------------------------
(* selectVisualizations: the six rules *)

\* columns.filter(col => classifications[col] === role)
ColumnsOfRole(cols, classes, role) ==
    SelectSeq(cols, LAMBDA col : RoleOf(classes, col) = role)

Descriptor(type, rows, xAxis, yAxis, description) ==
    [type |-> type, data |-> rows, xAxis |-> xAxis, yAxis |-> yAxis,
     description |-> description]

\* Number(s) of a non-empty string: decimal integers are read, anything else
\* is NaN
StringToNumber(s) ==
    LET body == IF Ch(s, 1) = "-" THEN SubSeq(s, 2, Len(s)) ELSE s
    IN  IF Len(body) > 0 /\ \A i \in 1..Len(body) : IsDigit(Ch(body, i))
        THEN Num((IF Ch(s, 1) = "-" THEN -1 ELSE 1) * StringToNat(body))
        ELSE NaN

\* the number that (v || 0) is in a subtraction
OrZero(v) ==
    IF ~Truthy(v) THEN Num(0)
    ELSE IF v.t = "string" THEN StringToNumber(v.s)
    ELSE v

\* collation alphabet of localeCompare: punctuation, digits, then letters
\* with the lower case letter before its upper case
CollationOrder ==
    " _-,.:/0123456789aAbBcCdDeEfFgGhHiIjJkKlLmMnNoOpPqQrRsStTuUvVwWxXyYzZ"

CollationRank(c) ==
    IF \E i \in 1..Len(CollationOrder) : Ch(CollationOrder, i) = c
    THEN CHOOSE i \in 1..Len(CollationOrder) : Ch(CollationOrder, i) = c
    ELSE Len(CollationOrder) + 1

\* primary weight: a letter and its capital weigh the same
PrimaryRank(c) == CollationRank(LowerChar(c))

\* a.localeCompare(b): primary weights first, case as the tie-break
localeCompare(a, b) ==
    LET n == Min2(Len(a), Len(b))
        diffP == {i \in 1..n : PrimaryRank(Ch(a, i)) # PrimaryRank(Ch(b, i))}
        diffC == {i \in 1..n : Ch(a, i) # Ch(b, i)}
    IN  IF diffP # {}
        THEN LET i == Nth(diffP, 1)
             IN  IF PrimaryRank(Ch(a, i)) < PrimaryRank(Ch(b, i)) THEN -1 ELSE 1
        ELSE IF Len(a) # Len(b) THEN (IF Len(a) < Len(b) THEN -1 ELSE 1)
        ELSE IF diffC # {}
        THEN LET i == Nth(diffC, 1)
             IN  IF CollationRank(Ch(a, i)) < CollationRank(Ch(b, i)) THEN -1 ELSE 1
        ELSE 0

\* the comparator of the line rule
CompareTemporal(a, b, timeCol) ==
    LET aVal == Get(a, timeCol)
        bVal == Get(b, timeCol)
    IN  IF IsString(aVal) /\ IsString(bVal)
        THEN localeCompare(aVal.s, bVal.s)
        ELSE Sign(Minus(OrZero(aVal), OrZero(bVal)))

\* where the line rule's comparator is positive
TemporalOrder(rows, timeCol) ==
    [i \in 1..Len(rows) |->
        [j \in 1..Len(rows) |-> CompareTemporal(rows[i], rows[j], timeCol) > 0]]

\* data.sort(cmp) without the copy: the source array is the sorted one
SortInPlace(rows, timeCol) ==
    [array |-> sort(rows, TemporalOrder(rows, timeCol)),
     source |-> sort(rows, TemporalOrder(rows, timeCol))]

\* [...data].sort(cmp): the sorted array is a fresh one, the source array
\* keeps its order
SortedCopy(rows, timeCol) ==
    [array |-> sort(rows, TemporalOrder(rows, timeCol)),
     source |-> rows]

LineCap == 1000

\* Rule 1: temporal + numeric -> line chart.  Returns the descriptors pushed
\* and the input array as the rule leaves it.
LineRule(temporal, numeric, rows) ==
    IF Len(temporal) > 0 /\ Len(numeric) > 0
    THEN LET timeCol == temporal[1]
             metricCol == numeric[1]
             sorted == SortedCopy(rows, timeCol)
         IN  [pushed |-> <<Descriptor("line", SliceTo(sorted.array, LineCap),
                                      timeCol, metricCol,
                                      "Time series: " \o metricCol \o " over " \o timeCol)>>,
              rows |-> sorted.source]
    ELSE [pushed |-> <<>>, rows |-> rows]

\* String(row[catCol] || 'Unknown')
CategoryKey(row, catCol) ==
    IF Truthy(Get(row, catCol)) THEN String(Get(row, catCol)) ELSE "Unknown"

\* the metric cells that line 124-126 add to a group's sum
GroupMetricCells(rows, catCol, metricCol, key) ==
    LET members == SelectSeq(rows, LAMBDA row : CategoryKey(row, catCol) = key)
        cells == Column(members, metricCol)
    IN  SelectSeq(cells, TypeofNumber)

\* grouped[key].count after the forEach
GroupCount(rows, catCol, key) ==
    Cardinality({i \in 1..Len(rows) : CategoryKey(rows[i], catCol) = key})

\* group.sum / group.count
GroupMean(sum, count) == Divide(sum, Num(count))

\* one element of `aggregated`: {...group, [metricCol]: mean, _count: count}
AggregatedRecord(rows, catCol, metricCol, key) ==
    LET count == GroupCount(rows, catCol, key)
        sum == SumCells(GroupMetricCells(rows, catCol, metricCol, key))
        group == ObjSet(ObjSet(ObjSet(<<>>, catCol, Str(key)), "count", Num(count)),
                        "sum", sum)
    IN  ObjSet(ObjSet(group, metricCol, GroupMean(Get(group, "sum"), Get(group, "count").n)),
               "_count", Get(group, "count"))

\* Object.values(grouped).map(...)
Aggregate(rows, catCol, metricCol) ==
    LET keys == OwnKeyOrder([i \in 1..Len(rows) |-> CategoryKey(rows[i], catCol)])
    IN  [i \in 1..Len(keys) |-> AggregatedRecord(rows, catCol, metricCol, keys[i])]

\* (a, b) => b[col] - a[col]
CompareDesc(a, b, col) == Sign(Minus(Get(b, col), Get(a, col)))

\* a sort that also moves an element behind a later one of equal value
DescendingOrEqualOrder(arr, col) ==
    [i \in 1..Len(arr) |->
        [j \in 1..Len(arr) |-> CompareDesc(arr[i], arr[j], col) >= 0]]

\* where that comparator is positive
DescendingOrder(arr, col) ==
    [i \in 1..Len(arr) |->
        [j \in 1..Len(arr) |-> CompareDesc(arr[i], arr[j], col) > 0]]

\* arr.sort((a, b) => b[col] - a[col])
SortDesc(arr, col) == sort(arr, DescendingOrder(arr, col))

AggregateCap == 20

\* Rule 2: categorical x numeric -> aggregated bar chart
AggregationRule(categorical, numeric, rows) ==
    IF Len(categorical) > 0 /\ Len(numeric) > 0
    THEN LET catCol == categorical[1]
             metricCol == numeric[1]
             aggregated == SortDesc(Aggregate(rows, catCol, metricCol), metricCol)
         IN  <<Descriptor("bar", SliceTo(aggregated, AggregateCap), catCol, metricCol,
                          "Average " \o metricCol \o " by " \o catCol \o " (top 20)")>>
    ELSE <<>>

\* Math.min(...values) and Math.max(...values) of a non-empty array
MathMin(values) ==
    CHOOSE m \in {values[i] : i \in 1..Len(values)} :
        \A j \in 1..Len(values) : Leq(m, values[j])

MathMax(values) ==
    CHOOSE m \in {values[i] : i \in 1..Len(values)} :
        \A j \in 1..Len(values) : Leq(values[j], m)

\* x.toFixed(1) of a finite number: the nearest tenth, a tie away from zero
\* (of the exact value; the code rounds the double nearest to it)
toFixed1(x) ==
    LET tenths == (20 * Abs(x.n) + x.d) \div (2 * x.d)
    IN  (IF x.n < 0 THEN "-" ELSE "")
        \o NatToString(tenths \div 10) \o "." \o NatToString(tenths % 10)

bins == 20

HistogramMinRows == 10

\* binWidth = (max - min) / bins
BinWidth(min, max) == Divide(Minus(max, min), Num(bins))

\* Math.min(Math.floor((val - min) / binWidth), bins - 1)
BinIndex(val, min, binWidth) ==
    MathMin2(Floor(Divide(Minus(val, min), binWidth)), Num(bins - 1))

\* histogram[i] as created: {bin, binStart, count: 0}, i counted from 0
EmptyBin(i, min, binWidth) ==
    LET lo == Plus(min, Times(Num(i), binWidth))
        hi == Plus(min, Times(Num(i + 1), binWidth))
    IN  <<[k |-> "bin", v |-> Str(toFixed1(lo) \o "-" \o toFixed1(hi))],
          [k |-> "binStart", v |-> lo],
          [k |-> "count", v |-> Num(0)]>>

\* histogram[binIndex] is an element of the array
ValidBinIndex(b) == b.d = 1 /\ b.n >= 0 /\ b.n < bins

\* Rule 3: numeric column -> histogram.  histogram[binIndex].count++ raises a
\* TypeError when binIndex is no index of the array.
HistogramRule(numeric, rows) ==
    IF Len(numeric) > 0 /\ Len(rows) >= HistogramMinRows
    THEN LET metricCol == numeric[1]
             values == SelectSeq(Column(rows, metricCol), IsNumber)
         IN  IF Len(values) >= HistogramMinRows
             THEN LET min == MathMin(values)
                      max == MathMax(values)
                      binWidth == BinWidth(min, max)
                      index == [i \in 1..Len(values) |-> BinIndex(values[i], min, binWidth)]
                      histogram ==
                          [b \in 1..bins |->
                              ObjSet(EmptyBin(b - 1, min, binWidth), "count",
                                     Num(Cardinality({i \in 1..Len(values) :
                                                        index[i] = Num(b - 1)})))]
                  IN  IF \E i \in 1..Len(values) : ~ValidBinIndex(index[i])
                      THEN [threw |-> TRUE, pushed |-> <<>>]
                      ELSE [threw |-> FALSE,
                            pushed |-> <<Descriptor("bar", histogram, "bin", "count",
                                            "Distribution of " \o metricCol \o " (histogram)")>>]
             ELSE [threw |-> FALSE, pushed |-> <<>>]
    ELSE [threw |-> FALSE, pushed |-> <<>>]

RankCap == 20

\* the filter of the ranking rule
Rankable(row, labelCol, metricCol) ==
    IsNumber(Get(row, metricCol)) /\ NotNullish(Get(row, labelCol))

\* Rule 4: numeric + identifier -> top-N bar chart
RankingRule(numeric, identifiers, rows) ==
    IF Len(numeric) > 0 /\ Len(identifiers) > 0
    THEN LET labelCol == identifiers[1]
             metricCol == numeric[1]
             kept == SelectSeq(rows, LAMBDA row : Rankable(row, labelCol, metricCol))
             mapped == [i \in 1..Len(kept) |->
                          ObjSet(ObjSet(<<>>, labelCol, Str(String(Get(kept[i], labelCol)))),
                                 metricCol, Get(kept[i], metricCol))]
             ranked == SliceTo(SortDesc(mapped, metricCol), RankCap)
         IN  IF Len(ranked) > 0
             THEN <<Descriptor("bar", ranked, labelCol, metricCol,
                               "Top " \o NatToString(Len(ranked)) \o " by " \o metricCol)>>
             ELSE <<>>
    ELSE <<>>

FrequencyCap == 30

\* Rule 5: categorical column, no numeric column -> count bar chart
FrequencyRule(categorical, numeric, rows) ==
    IF Len(categorical) > 0 /\ Len(numeric) = 0
    THEN LET catCol == categorical[1]
             keys == OwnKeyOrder([i \in 1..Len(rows) |-> CategoryKey(rows[i], catCol)])
             entries == [i \in 1..Len(keys) |->
                           ObjSet(ObjSet(<<>>, catCol, Str(keys[i])), "count",
                                  Num(GroupCount(rows, catCol, keys[i])))]
             frequencyData == SliceTo(SortDesc(entries, "count"), FrequencyCap)
         IN  IF Len(frequencyData) > 0
             THEN <<Descriptor("bar", frequencyData, catCol, "count",
                               "Frequency of " \o catCol \o " (count)")>>
             ELSE <<>>
    ELSE <<>>

ScatterCap == 500

\* the filter of the scatter rule
ScatterValid(row, xCol, yCol) ==
    IsNumber(Get(row, xCol)) /\ IsNumber(Get(row, yCol))

\* data.slice(0, 500).filter(...): the rows the scatter rule maps to points
ScatterRows(rows, xCol, yCol) ==
    SelectSeq(SliceTo(rows, ScatterCap), LAMBDA row : ScatterValid(row, xCol, yCol))

\* Rule 6: two numeric columns -> scatter plot
ScatterRule(numeric, rows) ==
    IF Len(numeric) >= 2
    THEN LET xCol == numeric[1]
             yCol == numeric[2]
             kept == ScatterRows(rows, xCol, yCol)
             scatterData == [i \in 1..Len(kept) |->
                               <<[k |-> "x", v |-> Get(kept[i], xCol)],
                                 [k |-> "y", v |-> Get(kept[i], yCol)]>>]
         IN  IF Len(scatterData) > 0
             THEN <<Descriptor("scatter", scatterData, xCol, yCol, yCol \o " vs " \o xCol)>>
             ELSE <<>>
    ELSE <<>>

\* what a call leaves in `visualizations`: kind is "array", "null", "threw"
\* (an exception left the call) or "none" (no call yet)
NoResult == [kind |-> "none", items |-> <<>>]

\* return visualizations.length > 0 ? visualizations : null
ReturnValue(pushed) ==
    IF Len(pushed) > 0 THEN [kind |-> "array", items |-> pushed]
    ELSE [kind |-> "null", items |-> <<>>]

\* selectVisualizations(columns, classifications, data): the returned value
\* and the data array as the call leaves it
selectVisualizations(cols, classes, rows) ==
    LET identifiers == ColumnsOfRole(cols, classes, "identifier")
        temporal == ColumnsOfRole(cols, classes, "temporal")
        categorical == ColumnsOfRole(cols, classes, "categorical")
        numeric == ColumnsOfRole(cols, classes, "numeric")
        line == LineRule(temporal, numeric, rows)
        heap == line.rows
        histogram == HistogramRule(numeric, heap)
    IN  IF histogram.threw
        THEN [result |-> [kind |-> "threw", items |-> <<>>], rows |-> heap]
        ELSE [result |-> ReturnValue(line.pushed
                                     \o AggregationRule(categorical, numeric, heap)
                                     \o histogram.pushed
                                     \o RankingRule(numeric, identifiers, heap)
                                     \o FrequencyRule(categorical, numeric, heap)
                                     \o ScatterRule(numeric, heap)),
              rows |-> heap]

\* DataChart's useMemo callback
DataChart(rows) ==
    IF Len(rows) = 0 THEN [kind |-> "null", items |-> <<>>]
    ELSE selectVisualizations(Keys(rows[1]), classifyColumns(rows), rows).result

---------------------------------------------------------------------------
(* Inputs *)

MaxRows == 2
MaxValues == 2
HistogramExtraRows == 2
MaxSpread == 3
MaxNulls == 1
MaxOverCap == 2
MaxInvalid == 2
MaxCategoryRows == 3

SeqsUpTo(S, n) == UNION {[1..k -> S] : k \in 0..n}

\* the cells of the small batches: numbers, strings and null in any column
\* (the column "when" holds date strings)
Cells(col) ==
    IF col = "when"
    THEN {Num(10), Str("2024-01-05"), Str("2024-01-03"), Null}
    ELSE {Num(10), Num(30), Str("A"), Null}

\* the key lists of the small batches
Schemas ==
    {<<"city", "value">>, <<"Name", "width">>, <<"user_id", "score">>,
     <<"ID", "created_at">>, <<"when", "amount">>}

Roles == {"identifier", "temporal", "categorical", "numeric"}

\* the rows with the keys of schema (the same key list in every row)
RowsOf(schema) ==
    {[i \in 1..Len(schema) |-> [k |-> schema[i], v |-> cells[i]]] :
        cells \in {c \in [1..Len(schema) -> UNION {Cells(schema[j]) : j \in 1..Len(schema)}] :
                     \A j \in 1..Len(schema) : c[j] \in Cells(schema[j])}}

SmallBatches(schema) == SeqsUpTo(RowsOf(schema), MaxRows)

\* every role map over the keys of schema
RoleMaps(schema) ==
    {[i \in 1..Len(schema) |-> [k |-> schema[i], v |-> roles[i]]] :
        roles \in [1..Len(schema) -> Roles]}

\* one-column batches around the histogram's 10-row threshold: `spread`
\* distinct values base, base + step, ... repeated in turn, then null cells
HistogramBatch(n, base, step, spread, nulls) ==
    [i \in 1..n |->
        <<[k |-> "value",
           v |-> IF i > n - nulls THEN Null
                 ELSE Num(base + ((i - 1) % spread) * step)]>>]

HistogramBatches ==
    {HistogramBatch(n, base, step, spread, nulls) :
        n \in (HistogramMinRows - 1)..(HistogramMinRows + HistogramExtraRows),
        base \in {-5, 0, 3}, step \in {1, 7}, spread \in 1..MaxSpread,
        nulls \in 0..MaxNulls}

\* two-column batches around the scatter rule's 500-row cap: the first
\* `invalid` rows have a null y cell
LargeBatch(n, invalid) ==
    [i \in 1..n |->
        <<[k |-> "value", v |-> Num(i % 7)],
          [k |-> "score", v |-> IF i <= invalid THEN Null ELSE Num(i % 5)]>>]

LargeBatches ==
    {LargeBatch(n, invalid) :
        n \in (ScatterCap - 1)..(ScatterCap + MaxOverCap), invalid \in 0..MaxInvalid}

\* the cells of the one-column category batches: the falsy values that are
\* not null ('' and 0), a plain string, the string 'Unknown' and null
CategoryCells == {Str(""), Num(0), Str("A"), Str("Unknown"), Null}

CategoryBatches ==
    SeqsUpTo({<<[k |-> "city", v |-> c]>> : c \in CategoryCells}, MaxCategoryRows)

\* one-column batches around the frequency rule's 30-record cap: `distinct`
\* categories c1, c2, ... in turn, over distinct + extra rows
FrequencyBatch(distinct, extra) ==
    [i \in 1..(distinct + extra) |->
        <<[k |-> "city", v |-> Str("c" \o NatToString(((i - 1) % distinct) + 1))]>>]

FrequencyBatches ==
    {FrequencyBatch(distinct, extra) :
        distinct \in (FrequencyCap - 1)..(FrequencyCap + MaxOverCap),
        extra \in 0..MaxOverCap}

\* two-column batches around the ranking rule's 20-record cap: distinct
\* labels, `spread` distinct scores in turn (so that scores tie), and a null
\* score in the first `nulls` rows
RankBatch(n, spread, nulls) ==
    [i \in 1..n |->
        <<[k |-> "user_id", v |-> Num(i)],
          [k |-> "score", v |-> IF i <= nulls THEN Null ELSE Num((i * 3) % spread)]>>]

RankBatches ==
    {RankBatch(n, spread, nulls) :
        n \in (RankCap - 1)..(RankCap + MaxOverCap), spread \in 1..MaxSpread,
        nulls \in 0..MaxNulls}

RankRoleMap == <<[k |-> "user_id", v |-> "identifier"], [k |-> "score", v |-> "numeric"]>>

CategoricalRoleMap == <<[k |-> "city", v |-> "categorical"]>>

NumericRoleMap == <<[k |-> "value", v |-> "numeric"], [k |-> "score", v |-> "numeric"]>>

\* the calls selectVisualizations(columns, classifications, data) a caller
\* makes with a role map of its own
DirectCalls ==
    {[cols |-> schema, classes |-> classes, rows |-> rows] :
        schema \in {<<"when", "value">>}, classes \in RoleMaps(<<"when", "value">>),
        rows \in SmallBatches(<<"when", "value">>)}
    \cup {[cols |-> <<"value">>, classes |-> <<[k |-> "value", v |-> "numeric"]>>,
           rows |-> rows] : rows \in HistogramBatches}
    \cup {[cols |-> <<"value", "score">>, classes |-> NumericRoleMap, rows |-> rows] :
            rows \in LargeBatches}
    \cup {[cols |-> <<>>, classes |-> <<>>, rows |-> rows] :
            rows \in SmallBatches(<<"when", "value">>)}
    \cup {[cols |-> <<"city">>, classes |-> CategoricalRoleMap, rows |-> rows] :
            rows \in CategoryBatches \cup FrequencyBatches}
    \cup {[cols |-> <<"user_id", "score">>, classes |-> RankRoleMap, rows |-> rows] :
            rows \in RankBatches}

\* the batches DataChart is rendered with
ChartBatches ==
    UNION {SmallBatches(schema) : schema \in Schemas}
    \cup HistogramBatches \cup LargeBatches \cup CategoryBatches \cup RankBatches

ColumnNames ==
    {"id", "ID", "name", "Name", "width", "user_id", "GRID", "value",
     "created_at", "city", "names"}

ColumnCells == {Num(1), Num(2), Str("2024-01-05"), Null}

---------------------------------------------------------------------------
(* The engine as a state machine: one call sequence per behaviour *)

NoError == "null"

\* App's state as useState creates it, before the mount effect has run
AppIdle ==
    /\ page = 1
    /\ totalPages = 1
    /\ loading = TRUE
    /\ error = NoError
    /\ appData = <<>>
    /\ chart = [kind |-> "null", items |-> <<>>]
    /\ summary = FALSE
    /\ inflight = {}
    /\ summaryInflight = 0
    /\ calls = 0
    /\ failures = FALSE

NoColumnCall ==
    /\ ccName = ""
    /\ ccSample = <<>>
    /\ ccAll = <<>>
    /\ ccResult = ""

\* a caller holds a batch (and, for a direct call, a role map of its own)
Init ==
    /\ \/ /\ pc = "data"
          /\ input \in ChartBatches
          /\ columns = <<>>
          /\ classifications = <<>>
       \/ /\ pc = "roles"
          /\ \E call \in DirectCalls :
                /\ input = call.rows
                /\ columns = call.cols
                /\ classifications = call.classes
    /\ data = input
    /\ visualizations = NoResult
    /\ NoColumnCall
    /\ AppIdle

\* const columns = Object.keys(data[0]); const classifications = classifyColumns(data)
ClassifyColumns ==
    /\ pc = "data"
    /\ pc' = "classified"
    /\ columns' = IF Len(data) = 0 THEN <<>> ELSE Keys(data[1])
    /\ classifications' = classifyColumns(data)
    /\ UNCHANGED <<data, input, visualizations, ccName, ccSample, ccAll, ccResult>>
    /\ UNCHANGED appVars

\* selectVisualizations(columns, classifications, data)
SelectVisualizations ==
    /\ pc \in {"classified", "roles"}
    /\ LET call == selectVisualizations(columns, classifications, data)
       IN  /\ visualizations' = call.result
           /\ data' = call.rows
           /\ pc' = IF call.result.kind = "threw" THEN "threw" ELSE "returned"
    /\ UNCHANGED <<input, columns, classifications, ccName, ccSample, ccAll, ccResult>>
    /\ UNCHANGED appVars

Next == ClassifyColumns \/ SelectVisualizations

Spec == Init /\ [][Next]_vars

\* a caller holds the arguments of one classifyColumn call
ColumnInit ==
    /\ pc = "column"
    /\ ccName \in ColumnNames
    /\ ccSample \in SeqsUpTo(ColumnCells, MaxValues)
    /\ ccAll \in SeqsUpTo(ColumnCells, MaxValues)
    /\ ccResult = ""
    /\ input = <<>>
    /\ data = <<>>
    /\ columns = <<>>
    /\ classifications = <<>>
    /\ visualizations = NoResult
    /\ AppIdle

\* classifyColumn(columnName, sampleValues, allValues)
ClassifyColumn ==
    /\ pc = "column"
    /\ pc' = "column_done"
    /\ ccResult' = classifyColumn(ccName, ccSample, ccAll)
    /\ UNCHANGED <<ccName, ccSample, ccAll, input, data, columns, classifications,
                   visualizations>>
    /\ UNCHANGED appVars

ColumnNext == ClassifyColumn

ColumnSpec == ColumnInit /\ [][ColumnNext]_vars

---------------------------------------------------------------------------
(* App: page state, fetchData and the pagination buttons of DataTable *)

BackendPages == 3
MaxFetches == 4

\* result.data of GET /api/data?page=p: one row that tells the page
PageRows(p) ==
    IF p \in 1..BackendPages
    THEN <<<<[k |-> "id", v |-> Num(p)], [k |-> "value", v |-> Num(10 * p)]>>>>
    ELSE <<>>

AppInit ==
    /\ AppIdle
    /\ pc = "app"
    /\ NoColumnCall
    /\ input = <<>>
    /\ data = <<>>
    /\ columns = <<>>
    /\ classifications = <<>>
    /\ visualizations = NoResult

\* the effect of useEffect(..., [page]): fetchData() up to its first await
\* (setLoading(true), the request for the page of this render) and
\* fetchSummary() up to its first await
PageEffect(p) ==
    /\ loading' = TRUE
    /\ inflight' = inflight \cup {[id |-> calls + 1, page |-> p, stage |-> "fetch"]}
    /\ calls' = calls + 1
    /\ summaryInflight' = summaryInflight + 1

\* first render: the effect runs with page = 1
Mount ==
    /\ calls = 0
    /\ PageEffect(page)
    /\ UNCHANGED <<page, totalPages, error, appData, chart, summary, failures>>
    /\ UNCHANGED engineVars

\* DataTable is rendered only when data.length > 0
TableShown == Len(appData) > 0

\* disabled={page === 1}
PreviousDisabled == page = 1

\* a Next button that is disabled only past the last page
NextDisabledPastLast == page > totalPages

\* disabled={page >= totalPages}
NextDisabled == page >= totalPages

\* Previous: onPageChange(page - 1), disabled when page === 1
ClickPrevious ==
    /\ calls > 0 /\ calls < MaxFetches
    /\ TableShown
    /\ ~PreviousDisabled
    /\ page' = page - 1
    /\ PageEffect(page - 1)
    /\ UNCHANGED <<totalPages, error, appData, chart, summary, failures>>
    /\ UNCHANGED engineVars

\* Next: onPageChange(page + 1), disabled when page >= totalPages
ClickNext ==
    /\ calls > 0 /\ calls < MaxFetches
    /\ TableShown
    /\ ~NextDisabled
    /\ page' = page + 1
    /\ PageEffect(page + 1)
    /\ UNCHANGED <<totalPages, error, appData, chart, summary, failures>>
    /\ UNCHANGED engineVars

\* await fetch(...) resolves with response.ok: fetchData goes on to
\* await response.json()
ResponseOk ==
    \E f \in inflight :
        /\ f.stage = "fetch"
        /\ inflight' = (inflight \ {f}) \cup {[f EXCEPT !.stage = "json"]}
        /\ UNCHANGED <<page, totalPages, loading, error, appData, chart, summary,
                       summaryInflight, calls, failures>>
        /\ UNCHANGED engineVars

\* catch (err) { setError(err.message) } finally { setLoading(false) }
FetchFailed(f, message) ==
    /\ error' = message
    /\ loading' = FALSE
    /\ inflight' = inflight \ {f}
    /\ failures' = TRUE
    /\ UNCHANGED <<page, totalPages, appData, chart, summary, summaryInflight, calls>>
    /\ UNCHANGED engineVars

\* the response is not ok: throw new Error('Failed to fetch data')
ResponseNotOk ==
    \E f \in inflight :
        /\ f.stage = "fetch"
        /\ FetchFailed(f, "Failed to fetch data")

\* fetch() or response.json() rejects (network down, body is no JSON)
Rejected ==
    \E f \in inflight : FetchFailed(f, "rejected")

\* await response.json() resolves: setData, setTotalPages, setError(null),
\* then finally setLoading(false); DataChart's memo follows the new data
JsonArrives ==
    \E f \in inflight :
        /\ f.stage = "json"
        /\ appData' = PageRows(f.page)
        /\ totalPages' = BackendPages
        /\ error' = NoError
        /\ loading' = FALSE
        /\ chart' = DataChart(PageRows(f.page))
        /\ inflight' = inflight \ {f}
        /\ UNCHANGED <<page, summary, summaryInflight, calls, failures>>
        /\ UNCHANGED engineVars

\* fetchSummary: setSummary(result)
SummaryArrives ==
    /\ summaryInflight > 0
    /\ summaryInflight' = summaryInflight - 1
    /\ summary' = TRUE
    /\ UNCHANGED <<page, totalPages, loading, error, appData, chart, inflight, calls,
                   failures>>
    /\ UNCHANGED engineVars

\* fetchSummary: the catch only logs
SummaryFails ==
    /\ summaryInflight > 0
    /\ summaryInflight' = summaryInflight - 1
    /\ UNCHANGED <<page, totalPages, loading, error, appData, chart, summary, inflight,
                   calls, failures>>
    /\ UNCHANGED engineVars

AppNext ==
    \/ Mount
    \/ ClickPrevious
    \/ ClickNext
    \/ ResponseOk
    \/ ResponseNotOk
    \/ Rejected
    \/ JsonArrives
    \/ SummaryArrives
    \/ SummaryFails

AppSpec == AppInit /\ [][AppNext]_vars

---------------------------------------------------------------------------
(* Properties of the column classifier *)

\* C1: for every non-empty row batch, classifyColumns returns a map whose
\* keys are exactly the keys of the first row, each once, and every value
\* is one of the four roles.
C1_EveryColumnHasOneRole ==
    (pc = "classified" /\ Len(input) > 0) =>
        /\ Len(classifications) = Len(input[1])
        /\ {classifications[i].k : i \in 1..Len(classifications)}
             = {input[1][i].k : i \in 1..Len(input[1])}
        /\ \A i, j \in 1..Len(classifications) :
              classifications[i].k = classifications[j].k => i = j
        /\ \A i \in 1..Len(classifications) :
              classifications[i].v \in {"identifier", "temporal", "categorical", "numeric"}

\* a classified batch with a column of nulls and numbers only, none in the
\* majority, which falls through to the last line of classifyColumn
C1_Witness ==
    /\ pc = "classified"
    /\ Len(input) = 2
    /\ input[1][2].v = Null
    /\ input[2][2].v = Num(10)
    /\ input[1][1].v = Str("A")
    /\ classifications[2].v = "categorical"

\* C2: a column named 'id' or 'name', compared case-insensitively, is
\* classified 'identifier' whatever sampleValues and allValues hold.
C2_IdAndNameAreIdentifiers ==
    (pc = "column_done" /\ ccName \in {"id", "ID", "name", "Name"}) =>
        ccResult = "identifier"

\* 'Name' with a date-like first sample and duplicated values
C2_Witness ==
    /\ pc = "column_done"
    /\ ccName = "Name"
    /\ ccSample = <<Str("2024-01-05"), Num(1)>>
    /\ ccAll = <<Num(1), Num(1)>>
    /\ ccResult = "identifier"

AllNumbers(values) == \A i \in 1..Len(values) : values[i].t = "number"

PairwiseDistinct(values) ==
    \A i, j \in 1..Len(values) : values[i] = values[j] => i = j

\* the column names of ColumnNames that contain no temporal keyword
NoKeywordNames == ColumnNames \ {"created_at"}

\* C3 as stated: a column of finite numbers whose name has no temporal
\* keyword is classified 'numeric', names containing 'id' and pairwise
\* distinct values included.
C3_NumbersAreNumeric ==
    (/\ pc = "column_done"
     /\ ccName \in NoKeywordNames
     /\ Len(ccSample) > 0 /\ AllNumbers(ccSample)
     /\ Len(ccAll) > 0 /\ AllNumbers(ccAll)) =>
        ccResult = "numeric"

\* C3 amended: such a column is 'numeric' unless its name is 'id' or 'name'
\* (in any case), or contains 'id' (in any case) while all its values are
\* pairwise distinct; it is 'identifier' then.
C3_NumbersAreNumericUnlessIdentifier ==
    (/\ pc = "column_done"
     /\ ccName \in NoKeywordNames
     /\ Len(ccSample) > 0 /\ AllNumbers(ccSample)
     /\ Len(ccAll) > 0 /\ AllNumbers(ccAll)) =>
        ccResult =
            IF \/ ccName \in {"id", "ID", "name", "Name"}
               \/ ccName \in {"width", "user_id", "GRID"} /\ PairwiseDistinct(ccAll)
            THEN "identifier"
            ELSE "numeric"

\* 'width' with duplicated numbers is numeric although it contains 'id'
C3_Witness ==
    /\ pc = "column_done"
    /\ ccName = "width"
    /\ ccSample = <<Num(1), Num(2)>>
    /\ ccAll = <<Num(2), Num(2)>>
    /\ ccResult = "numeric"

---------------------------------------------------------------------------
(* Properties of the rule engine *)

\* the call selectVisualizations(columns, classifications, input) is over
Called == pc \in {"returned", "threw"}

FirstOfRole(role) == ColumnsOfRole(columns, classifications, role)

NumericCells(rows, col) ==
    SelectSeq(Column(rows, col), LAMBDA v : v.t = "number")

\* the descriptors of the result that bind the given type and axes
Descriptors(type, xAxis, yAxis) ==
    {i \in 1..Len(visualizations.items) :
        /\ visualizations.items[i].type = type
        /\ visualizations.items[i].xAxis = xAxis
        /\ visualizations.items[i].yAxis = yAxis}

\* the guard of the histogram rule holds for the call's arguments
HistogramFires ==
    /\ Len(FirstOfRole("numeric")) > 0
    /\ Len(input) >= 10
    /\ Len(NumericCells(input, FirstOfRole("numeric")[1])) >= 10

\* C4: whenever the histogram rule fires, the call raises no exception and
\* the histogram has 20 bins whose counts sum to the number of values.
C4_HistogramCountsEveryValue ==
    (Called /\ HistogramFires) =>
        /\ pc = "returned"
        /\ \E i \in Descriptors("bar", "bin", "count") :
              LET histogram == visualizations.items[i].data
              IN  /\ Len(histogram) = 20
                  /\ SumCells(Column(histogram, "count"))
                       = Num(Len(NumericCells(input, FirstOfRole("numeric")[1])))

\* C5: every descriptor selectVisualizations returns has a non-empty data
\* sequence, for every role map and every row batch.
C5_DescriptorDataNonEmpty ==
    (pc = "returned") =>
        \A i \in 1..Len(visualizations.items) : Len(visualizations.items[i].data) > 0

\* C6: selectVisualizations returns a sequence, never null: the empty
\* sequence when no rule produces a descriptor.
C6_ReturnsSequence ==
    (pc = "returned") => visualizations.kind = "array"

\* the rows with numbers in both of the first two numeric columns
ValidPairs(rows, xCol, yCol) ==
    SelectSeq(rows, LAMBDA row : Get(row, xCol).t = "number" /\ Get(row, yCol).t = "number")

\* C8: when the scatter rule fires, its data is the first min(500, V) of
\* the V valid rows of the whole batch, in input order, each as {x, y}.
C8_ScatterTakesFirst500Valid ==
    (pc = "returned" /\ Len(FirstOfRole("numeric")) >= 2) =>
        LET xCol == FirstOfRole("numeric")[1]
            yCol == FirstOfRole("numeric")[2]
            valid == ValidPairs(input, xCol, yCol)
            expected == [i \in 1..Min2(500, Len(valid)) |->
                            <<[k |-> "x", v |-> Get(valid[i], xCol)],
                              [k |-> "y", v |-> Get(valid[i], yCol)]>>]
        IN  Len(valid) > 0 =>
                \E i \in Descriptors("scatter", xCol, yCol) :
                    visualizations.items[i].data = expected

\* the category of a row as the claim counts it: null is 'Unknown'
CategoryOf(row, catCol) ==
    IF Get(row, catCol).t = "null" THEN "Unknown" ELSE String(Get(row, catCol))

\* the numeric metric cells of the rows of one category
MetricsOf(rows, catCol, metricCol, category) ==
    NumericCells(SelectSeq(rows, LAMBDA row : CategoryOf(row, catCol) = category),
                 metricCol)

\* C9: the aggregated bar descriptor holds one record per category that has
\* a numeric metric value, its metric is the mean of those values (other
\* rows do not enter the divisor), means are non-increasing, at most 20.
C9_AggregatedMeans ==
    (/\ pc = "returned"
     /\ Len(FirstOfRole("categorical")) > 0
     /\ Len(FirstOfRole("numeric")) > 0
     /\ Len(input) > 0) =>
        LET catCol == FirstOfRole("categorical")[1]
            metricCol == FirstOfRole("numeric")[1]
            withMetric == {CategoryOf(input[r], catCol) : r \in
                             {r \in 1..Len(input) :
                                Len(MetricsOf(input, catCol, metricCol,
                                              CategoryOf(input[r], catCol))) > 0}}
        IN  \E i \in Descriptors("bar", catCol, metricCol) :
                LET records == visualizations.items[i].data
                IN  /\ Len(records) <= 20
                    /\ Len(records) = Min2(20, Cardinality(withMetric))
                    /\ \A a \in 1..Len(records) :
                          LET values == MetricsOf(input, catCol, metricCol,
                                                  Get(records[a], catCol).s)
                          IN  /\ Len(values) > 0
                              /\ Get(records[a], metricCol)
                                   = Divide(SumCells(values), Num(Len(values)))
                    /\ \A a, b \in 1..Len(records) :
                          (a < b) => Leq(Get(records[b], metricCol),
                                         Get(records[a], metricCol))
                    /\ \A a, b \in 1..Len(records) :
                          Get(records[a], catCol) = Get(records[b], catCol) => a = b

\* C10: selectVisualizations and classifyColumns never mutate the input
\* row batch: the array holds the same rows in the same order, with the
\* same keys and cells, after either call.
C10_InputNotMutated == data = input

\* the line rule has returned the rows in another order than the input's
C10_Witness ==
    /\ pc = "returned"
    /\ Len(input) = 2
    /\ \E i \in 1..Len(visualizations.items) :
          /\ visualizations.items[i].type = "line"
          /\ visualizations.items[i].data = <<input[2], input[1]>>
          /\ input[1] # input[2]

\* the categories of the rows, as the claims count them
CategoriesOf(rows, catCol) == {CategoryOf(rows[r], catCol) : r \in 1..Len(rows)}

\* the number of rows of one category
RowsIn(rows, catCol, category) ==
    Cardinality({r \in 1..Len(rows) : CategoryOf(rows[r], catCol) = category})

\* the frequency rule's guard holds for the call's arguments
FrequencyFires ==
    /\ Len(FirstOfRole("categorical")) > 0
    /\ Len(FirstOfRole("numeric")) = 0
    /\ Len(input) > 0

\* C11: with a categorical and no numeric column, the frequency descriptor
\* holds one record per distinct category (only null is 'Unknown'; '' and 0
\* count under their own string form), each with the number of rows of the
\* category, in non-increasing order of count, at most 30 of them; with at
\* most 30 categories the counts sum to the row count.
C11_FrequencyCountsPerCategory ==
    (pc = "returned" /\ FrequencyFires) =>
        LET catCol == FirstOfRole("categorical")[1]
            categories == CategoriesOf(input, catCol)
        IN  \E i \in Descriptors("bar", catCol, "count") :
                LET records == visualizations.items[i].data
                IN  /\ Len(records) = Min2(30, Cardinality(categories))
                    /\ \A a \in 1..Len(records) :
                          /\ Get(records[a], catCol).t = "string"
                          /\ Get(records[a], catCol).s \in categories
                          /\ Get(records[a], "count")
                               = Num(RowsIn(input, catCol, Get(records[a], catCol).s))
                    /\ \A a, b \in 1..Len(records) :
                          Get(records[a], catCol) = Get(records[b], catCol) => a = b
                    /\ \A a, b \in 1..Len(records) :
                          (a < b) => Leq(Get(records[b], "count"), Get(records[a], "count"))
                    /\ (Cardinality(categories) <= 30) =>
                          SumCells(Column(records, "count")) = Num(Len(input))

\* the rows the ranking rule is to keep: a number in the metric column and
\* a label that is not null
Ranked(rows, labelCol, metricCol) ==
    {r \in 1..Len(rows) :
        /\ Get(rows[r], metricCol).t = "number"
        /\ Get(rows[r], labelCol).t # "null"}

\* the rows that precede row r in the ranking: a greater metric, or an equal
\* metric and an earlier place in the input
RankedBefore(rows, labelCol, metricCol, r) ==
    {q \in Ranked(rows, labelCol, metricCol) :
        \/ ~Leq(Get(rows[q], metricCol), Get(rows[r], metricCol))
        \/ Get(rows[q], metricCol) = Get(rows[r], metricCol) /\ q < r}

\* the record the ranking shows for a row: its label as a string, its metric
RankedRecord(row, labelCol, metricCol) ==
    <<[k |-> labelCol, v |-> Str(String(Get(row, labelCol)))],
      [k |-> metricCol, v |-> Get(row, metricCol)]>>

\* the guard of the ranking rule holds for the call's arguments
RankingFires ==
    /\ Len(FirstOfRole("numeric")) > 0
    /\ Len(FirstOfRole("identifier")) > 0

\* C12: when the ranking rule fires, its data is the rows with a number in
\* the first numeric column and a non-null first identifier column, by
\* non-increasing metric, equal metrics in input order, cut to the first 20;
\* there is no ranking descriptor when no row passes the filter.
C12_RankingIsStableTop20 ==
    (pc = "returned" /\ RankingFires) =>
        LET labelCol == FirstOfRole("identifier")[1]
            metricCol == FirstOfRole("numeric")[1]
            ranked == Ranked(input, labelCol, metricCol)
            found == Descriptors("bar", labelCol, metricCol)
        IN  /\ (ranked = {}) => found = {}
            /\ (ranked # {}) =>
                  /\ Cardinality(found) = 1
                  /\ \A i \in found :
                        LET records == visualizations.items[i].data
                        IN  /\ Len(records) = Min2(20, Cardinality(ranked))
                            /\ \A r \in ranked :
                                  LET place == Cardinality(RankedBefore(input, labelCol,
                                                                        metricCol, r)) + 1
                                  IN  (place <= 20) =>
                                          records[place]
                                            = RankedRecord(input[r], labelCol, metricCol)

\* more than 20 rows pass the filter, scores tie, and the ranking was cut
C12_Witness ==
    /\ pc = "returned"
    /\ RankingFires
    /\ columns = <<"user_id", "score">>
    /\ Cardinality(Ranked(input, "user_id", "score")) > 20
    /\ \E i \in Descriptors("bar", "user_id", "score") :
          LET records == visualizations.items[i].data
          IN  /\ Len(records) = 20
              /\ Get(records[1], "score") = Get(records[2], "score")
              /\ Get(records[1], "user_id") # Get(records[2], "user_id")
              /\ Get(records[20], "score") # Get(records[1], "score")

---------------------------------------------------------------------------
(* Properties of App *)

\* C7: when pages were changed while fetches were in flight and every
\* response has arrived (none failed), in whatever order, App holds the rows
\* of the most recently requested page, and DataChart the descriptors
\* derived from them.
C7_NoStaleBatch ==
    (calls > 0 /\ inflight = {} /\ ~failures) =>
        /\ appData = PageRows(page)
        /\ chart = DataChart(PageRows(page))

\* C13: loading is true whenever a data fetch is in flight: in every
\* interleaving of page changes and fetch completions, loading = false
\* implies that no fetchData call is still awaiting its response.
C13_LoadingWhileInFlight == (loading = FALSE) => inflight = {}

\* C14: against a backend with a fixed total_pages of N, page stays within
\* 1..N after any clicks and fetch completions: Previous cannot take it
\* below 1 and Next cannot take it above the totalPages last received.
C14_PageWithinRange ==
    /\ page >= 1
    /\ page <= BackendPages
    /\ page <= totalPages

\* the last page is shown with its Next button disabled, the first page was
\* left and a further click would still be served
C14_Witness ==
    /\ page = BackendPages
    /\ totalPages = BackendPages
    /\ appData = PageRows(BackendPages)
    /\ TableShown
    /\ NextDisabled
    /\ ~PreviousDisabled
    /\ calls < MaxFetches

====
